---- MODULE Spec2Model ----
(***************************************************************************)
(* A model of the cycleops command-line client: the deploy / destroy       *)
(* workflow of setups.py with the streaming log channel of client.py, and  *)
(* the dotted-path variable engine (dict_from_variables) of services.py.   *)
(* One behaviour is one invocation of one command.                         *)
(***************************************************************************)
EXTENDS Integers, Sequences, FiniteSets, TLC

VARIABLES
    cmd,            \* the command of this invocation
    identifier,     \* the ID-or-name argument of the command ("-" when it has none)
    wait,           \* the --wait flag of deploy / destroy
    pc,             \* position of the command
    outcome,        \* "running", "returned", "aborted" (typer.Abort), "raised" (uncaught)
    log,            \* everything the command did that is visible outside, in order
    jobStatus,      \* the status of the job on the server ("none" before it exists)
    jobRan,         \* the job has passed through Deploying / Destroying
    lastFetched,    \* the status returned by the last successful job fetch
    frames,         \* number of non-empty frames received on the channel
    matches,        \* how many resources the name-filter query returned (-1: not known)
    response,       \* the response to the last request (NoResponse: none came)
    result,         \* what _request made of it: [kind, message]
    jobId,          \* job["id"] of the created job
    token,          \* the access token of the token exchange
    account,        \* job["account"] of the job fetched for the frame
    sent,           \* the frames sent on the channel, in order
    top_level_dict, \* the document dict_from_variables works on
    prev_dict,      \* the document before the last processed variable
    variable,       \* the last processed variable string
    error,          \* the exception the last processed variable raised, or "none"
    walked,         \* the nodes the last walk visited: <<[cur, kind, len, key]>>
    stored,         \* the paths of the slots the last walk assigned an object to
    nvars           \* number of variables processed by this call

vars == <<cmd, identifier, wait, pc, outcome, log, matches, jobStatus, jobRan,
          lastFetched, frames, response, result, jobId, token, account, sent,
          top_level_dict, prev_dict, variable, error, walked, stored, nvars>>

args == <<cmd, identifier, wait>>
jobVars == <<jobStatus, jobRan, lastFetched, frames>>
httpVars == <<response, result>>
wsVars == <<jobId, token, account, sent>>
mergeVars == <<top_level_dict, prev_dict, variable, error, walked, stored, nvars>>

----------------------------------------------------------------------------
(* Bounds *)

MaxFrames == 2      \* non-empty log frames the server sends before closing
MaxVars == 2        \* variables processed by one call of dict_from_variables
MaxCalls == 2       \* calls of dict_from_variables in one process

----------------------------------------------------------------------------
(* The log: what happened, in order *)

Ev(e, a) == [e |-> e, a |-> a]

Positions(s, e) == {i \in 1..Len(s) : s[i].e = e}

Has(s, e) == Positions(s, e) # {}

Last(s, e) == CHOOSE i \in Positions(s, e) : \A j \in Positions(s, e) : j <= i

----------------------------------------------------------------------------
(* The server and the transport: what a request can come back with.        *)

\* "ok": a 2xx response with a JSON body; "401"; "error": any other non-2xx
\* response or an unparsable body; "transport": requests.request itself raises.
Resp == {"ok", "empty", "401", "error", "transport"}

JobCommands == {"deploy", "destroy"}
ServiceCommands == {"create", "update"}

\* Job status transitions on the server (spec 4.2).
ServerNext(c, s) ==
    CASE s = "Initialized" /\ c = "deploy"  -> {"Deploying", "Failed"}
      [] s = "Initialized" /\ c = "destroy" -> {"Destroying", "Failed"}
      [] s = "Deploying"  -> {"Deployed", "Failed"}
      [] s = "Destroying" -> {"Initialized", "Failed"}
      [] OTHER -> {}

----------------------------------------------------------------------------
(* client.py: Client._handle_response and what the callers see of it       *)

\* The events _request adds to the log for a response that is not "ok":
\* _handle_response displays the error and raises typer.Abort; a transport
\* failure is raised by requests.request before _handle_response runs.
HandleResponseLog(r) ==
    IF r \in {"401", "error"} THEN <<Ev("show_error", r)>> ELSE <<>>

\* How a failed request ends a command outside any try block: typer.Abort
\* from _handle_response, the exception of requests.request, or the
\* TypeError of subscripting the None of a 204.
RequestFailure(r) ==
    IF r \in {"transport", "empty"} THEN "raised" ELSE "aborted"

\* client.py 87-93 (and 131-137, ...): retrieve(resource_id) asks for one
\* resource only when the ID is truthy, for the collection otherwise
retrieve(resource_id) ==
    IF resource_id # "" THEN "GET by id" ELSE "GET collection"

\* client.py 314: the text of the subscription frame
FrameText(job_id, jwt, acc) ==
    <<"id=", job_id, "|jwt=", jwt, "|account=", acc>>

----------------------------------------------------------------------------
(* setups.py: the reports of deploy and destroy *)

\* DeployReport with a job that is still deploying reported as deployed
DeployReport_SuccessWhileDeploying(status) ==
    CASE status \in {"Deployed", "Deploying"} -> Ev("show_success", "deployed")
      [] status = "Failed"   -> Ev("show_error", "could not be deployed")
      [] OTHER               -> Ev("print_status", status)

\* DeployReport with a fixed text in place of the status
DeployReport_StatusNotVerbatim(status) ==
    CASE status = "Deployed" -> Ev("show_success", "deployed")
      [] status = "Failed"   -> Ev("show_error", "could not be deployed")
      [] OTHER               -> Ev("print_status", "unknown")

\* setups.py 205-213: the match on job["status"] of deploy
DeployReport(status) ==
    CASE status = "Deployed" -> Ev("show_success", "deployed")
      [] status = "Failed"   -> Ev("show_error", "could not be deployed")
      [] OTHER               -> Ev("print_status", status)

\* DestroyReport without the case for Failed
DestroyReport_NoFailedCase(status) ==
    CASE status = "Initialized" -> Ev("show_success", "destroyed")
      [] OTHER                  -> Ev("print_status", status)

\* setups.py 254-264: the match on job["status"] of destroy
DestroyReport(status) ==
    CASE status = "Initialized" -> Ev("show_success", "destroyed")
      [] status = "Failed"      -> Ev("show_error", "could not be destroyed")
      [] OTHER                  -> Ev("print_status", status)

JobReport(c, status) ==
    IF c = "deploy" THEN DeployReport(status) ELSE DestroyReport(status)

\* AfterJobCreated with the test of the flag dropped
AfterJobCreated_AlwaysWaits(w) == "connect"

\* setups.py 194 / 243: where the command goes once the job is created
AfterJobCreated(w) == IF w THEN "connect" ELSE "done"

\* setups.py 190-198 / 234-247: what is displayed once the job is created
QueuedLog(c, w) ==
    (IF c = "destroy" THEN <<Ev("show_success", "queued")>> ELSE <<>>)
    \o (IF w THEN <<Ev("print", "queued")>> ELSE <<Ev("show_success", "queued")>>)

\* OnConnectionClosed catching the normal closure only
OnConnectionClosed_AbnormalIsFatal(kind) ==
    IF kind = "ok" THEN "final_fetch" ELSE "done"

\* setups.py 202 / 251: except websockets.exceptions.ConnectionClosed.
\* kind is "ok" (ConnectionClosedOK) or "error" (ConnectionClosedError).
OnConnectionClosed(kind) == "final_fetch"

\* AfterConnect with the frame sent before the token and the job are there
AfterConnect_SendsAtOnce == "send"

\* client.py 314, 323: get_job_logs evaluates self.jwt, then self.job
AfterConnect == "authenticate"

\* client.py 318: while message := await websocket.recv()
ListenContinues(message) == message # ""

----------------------------------------------------------------------------
(* Strings.  A Python str is a sequence of one-character strings, so that  *)
(* split, strip, lower, isdigit and int are computed and not assumed.      *)

Whitespace == {" "}

DigitChars == {"0", "1", "2", "3", "4", "5", "6", "7", "8", "9"}

DigitVal(c) ==
    CASE c = "0" -> 0 [] c = "1" -> 1 [] c = "2" -> 2 [] c = "3" -> 3
      [] c = "4" -> 4 [] c = "5" -> 5 [] c = "6" -> 6 [] c = "7" -> 7
      [] c = "8" -> 8 [] c = "9" -> 9

DigitChar(n) ==
    CASE n = 0 -> "0" [] n = 1 -> "1" [] n = 2 -> "2" [] n = 3 -> "3"
      [] n = 4 -> "4" [] n = 5 -> "5" [] n = 6 -> "6" [] n = 7 -> "7"
      [] n = 8 -> "8" [] n = 9 -> "9"

\* Characters that str.isdigit() accepts and int() rejects, such as the
\* superscript two, written "^2" here
SuperscriptDigits == {"^2"}

\* str.isdigit(): non-empty and every character a digit
isdigit(x) ==
    Len(x) > 0 /\ \A i \in 1..Len(x) : x[i] \in DigitChars \cup SuperscriptDigits

\* int(x) raises ValueError unless every character is a decimal digit
IntRaises(x) == \E i \in 1..Len(x) : x[i] \notin DigitChars

\* int(x) for a string of digits
RECURSIVE int(_)
int(x) ==
    IF Len(x) = 0 THEN 0
    ELSE 10 * int(SubSeq(x, 1, Len(x) - 1)) + DigitVal(x[Len(x)])

\* The decimal numeral of a natural number: how an integer key is written
\* in a path of the document.
RECURSIVE IntTok(_)
IntTok(n) ==
    IF n < 10 THEN <<DigitChar(n)>>
    ELSE IntTok(n \div 10) \o <<DigitChar(n % 10)>>

\* str.lower(), on the letters the inputs use
LowerChar(c) ==
    CASE c = "T" -> "t" [] c = "R" -> "r" [] c = "U" -> "u" [] c = "E" -> "e"
      [] c = "F" -> "f" [] c = "A" -> "a" [] c = "L" -> "l" [] c = "S" -> "s"
      [] OTHER -> c

lower(s) == [i \in 1..Len(s) |-> LowerChar(s[i])]

\* str.strip()
RECURSIVE lstrip(_)
lstrip(s) ==
    IF Len(s) > 0 /\ s[1] \in Whitespace THEN lstrip(Tail(s)) ELSE s

RECURSIVE rstrip(_)
rstrip(s) ==
    IF Len(s) > 0 /\ s[Len(s)] \in Whitespace
    THEN rstrip(SubSeq(s, 1, Len(s) - 1)) ELSE s

strip(s) == rstrip(lstrip(s))

\* The position of the first occurrence of character c in s, 0 if none
FindChar(s, c) ==
    IF \E i \in 1..Len(s) : s[i] = c
    THEN CHOOSE i \in 1..Len(s) : s[i] = c /\ \A j \in 1..(i - 1) : s[j] # c
    ELSE 0

\* str.split(c): "" gives [""], "a." gives ["a", ""]
RECURSIVE split(_, _)
split(s, c) ==
    IF FindChar(s, c) = 0 THEN <<s>>
    ELSE <<SubSeq(s, 1, FindChar(s, c) - 1)>>
         \o split(SubSeq(s, FindChar(s, c) + 1, Len(s)), c)

----------------------------------------------------------------------------------------------------------------------------------------------------
(* client.py, utils.py: responses and what _request makes of them *)

\* A response: status code, Content-Type, whether the body is JSON, the
\* members of the JSON object as <<key, value>> pairs, and the body as text
Response(status, ctype, parses, fields, text) ==
    [status |-> status, ctype |-> ctype, parses |-> parses,
     fields |-> fields, text |-> text]

MsgNotFound == <<"n", "o", "t", " ", "f", "o", "u", "n", "d">>
MsgDenied == <<"d", "e", "n", "i", "e", "d">>
MsgBad == <<"b", "a", "d">>
TextDown == <<" ", "d", "o", "w", "n", " ">>

Responses == {
    Response(200, "application/json", TRUE, <<>>, <<>>),
    Response(200, "text/html", FALSE, <<>>, <<>>),
    Response(204, "", FALSE, <<>>, <<>>),
    Response(300, "application/json", TRUE, <<>>, <<>>),
    Response(400, "application/json", TRUE,
             <<<<"detail", MsgNotFound>>, <<"message", MsgBad>>>>, <<>>),
    Response(401, "application/json", TRUE, <<<<"detail", MsgDenied>>>>, <<>>),
    Response(404, "application/json", TRUE, <<<<"detail", MsgNotFound>>>>, <<>>),
    Response(500, "text/plain", FALSE, <<>>, TextDown)
}

\* requests.request raised: no response came
NoResponse == Response(0, "", FALSE, <<>>, <<>>)

HasKey(fields, k) == \E i \in 1..Len(fields) : fields[i][1] = k
Get(fields, k) == fields[CHOOSE i \in 1..Len(fields) : fields[i][1] = k][2]

\* utils.py 7-29
extract_error_message(resp) ==
    IF resp.ctype = "application/json" /\ resp.parses
    THEN IF HasKey(resp.fields, "message") THEN Get(resp.fields, "message")
         ELSE IF HasKey(resp.fields, "msg") THEN Get(resp.fields, "msg")
         ELSE IF HasKey(resp.fields, "detail") THEN Get(resp.fields, "detail")
         ELSE <<>>
    ELSE IF resp.ctype = "text/plain" THEN strip(resp.text)
    ELSE <<>>

\* client.py 57: response.raise_for_status() raises for 4xx and 5xx
RaisesForStatus(status) == status >= 400 /\ status < 600

\* client.py 47-62: what _handle_response returns ("json", "None") or raises
handle_response(resp) ==
    IF resp.status = 401
    THEN [kind |-> "AuthenticationError", message |-> extract_error_message(resp)]
    ELSE IF resp.status = 204
    THEN [kind |-> "None", message |-> <<>>]
    ELSE IF RaisesForStatus(resp.status) \/ ~resp.parses
    THEN [kind |-> "APIError", message |-> extract_error_message(resp)]
    ELSE [kind |-> "json", message |-> <<>>]

\* client.py 28-45: _request
request(x) ==
    IF x = NoResponse
    THEN [kind |-> "ConnectionError", message |-> <<>>]
    ELSE handle_response(x)

\* How a request came back, as the log records it
Class(res) ==
    CASE res.kind = "json" -> "ok"
      [] res.kind = "None" -> "empty"
      [] res.kind = "AuthenticationError" -> "401"
      [] res.kind = "APIError" -> "error"
      [] res.kind = "ConnectionError" -> "transport"

----
(* services.py: validate_variable_format and parse_if_bool *)

\* services.py 168: if not key or not value
KeyOrValueMissing(key, value) == Len(key) = 0 \/ Len(value) = 0

\* variable.split("=") without the maxsplit: a second "=" fails the unpacking
validate_variable_format_NoMaxsplit(v) ==
    IF Len(split(v, "=")) # 2 \/ KeyOrValueMissing(split(v, "=")[1], split(v, "=")[2])
    THEN [err |-> "ValueError", key |-> <<>>, value |-> <<>>]
    ELSE [err |-> "none", key |-> strip(split(v, "=")[1]),
          value |-> strip(split(v, "=")[2])]

\* services.py 154-171.  The result is the pair (key, value), or the error.
validate_variable_format(v) ==
    IF FindChar(v, "=") = 0
    THEN [err |-> "ValueError", key |-> <<>>, value |-> <<>>]
    ELSE LET key == SubSeq(v, 1, FindChar(v, "=") - 1)
             value == SubSeq(v, FindChar(v, "=") + 1, Len(v))
         IN  IF KeyOrValueMissing(key, value)
             THEN [err |-> "ValueError", key |-> <<>>, value |-> <<>>]
             ELSE [err |-> "none", key |-> strip(key), value |-> strip(value)]

\* Documents: a node is a map, a list, a string or a boolean.
MapNode == [t |-> "map", v |-> <<>>]
ListNode == [t |-> "list", v |-> <<>>]
StrNode(s) == [t |-> "str", v |-> s]
BoolNode(b) == [t |-> "bool", v |-> IF b THEN <<"T">> ELSE <<"F">>]

StrTrue == <<"t", "r", "u", "e">>
StrFalse == <<"f", "a", "l", "s", "e">>

\* The comparison without value.lower()
parse_if_bool_CaseSensitive(value) ==
    IF value = StrTrue THEN BoolNode(TRUE)
    ELSE IF value = StrFalse THEN BoolNode(FALSE)
    ELSE StrNode(value)

\* services.py 231-238
parse_if_bool(value) ==
    IF lower(value) \in {StrTrue, StrFalse}
    THEN BoolNode(lower(value) = StrTrue)
    ELSE StrNode(value)

----------------------------------------------------------------------------
(* The document.  A document is a function from the paths of its nodes to  *)
(* the nodes; the root is the path <<>>.  A path is a sequence of keys; a  *)
(* string key is the string, an integer key (a list index, or an integer   *)
(* key of a map) is its decimal numeral.  String keys made of digits only  *)
(* never arise from dict_from_variables and are left out of the inputs.    *)

EmptyDoc == (<<>> :> MapNode)

IsPrefix(p, q) == Len(p) <= Len(q) /\ SubSeq(q, 1, Len(p)) = p

Children(d, p) == {q \in DOMAIN d : Len(q) = Len(p) + 1 /\ IsPrefix(p, q)}

IsLeaf(n) == n.t \in {"str", "bool"}

\* The document with the subtree at path p replaced by the single node n
Put(d, p, n) ==
    [q \in {r \in DOMAIN d : ~IsPrefix(p, r)} \cup {p} |->
        IF q = p THEN n ELSE d[q]]

\* A cursor is a node of the document, or the one-character string that
\* indexing a string leaf returns (det), which is no part of the document.
At(p) == [at |-> p, det |-> FALSE]
CharOf(p) == [at |-> p, det |-> TRUE]

Kind(d, c) == IF c.det THEN "str" ELSE d[c.at].t

\* len(current_node), for the kinds that have one
len(d, c) ==
    IF c.det THEN 1
    ELSE IF d[c.at].t = "str" THEN Len(d[c.at].v)
    ELSE Cardinality(Children(d, c.at))

\* list.append(n)
ListAppend(d, c, n) == Put(d, c.at \o <<IntTok(len(d, c))>>, n)

\* The key as it is written in a path of the document
StoredKey(key) == IF isdigit(key) THEN IntTok(int(key)) ELSE key

Child(c, key) == At(c.at \o <<StoredKey(key)>>)

----------------------------------------------------------------------------
(* services.py: should_create_new_node and the walk of dict_from_variables *)

\* should_create_new_node with the comparison off by one
should_create_new_node_OffByOne(d, c, key) ==
    IF isdigit(key) THEN int(key) > len(d, c) ELSE FALSE

\* services.py 218-228.  type(key) is int exactly when the segment isdigit
\* (services.py 195); len() of a bool raises before this is evaluated.
should_create_new_node(d, c, key) ==
    IF isdigit(key) THEN int(key) >= len(d, c) ELSE FALSE

\* KeyMissing as a truthiness test, not current_node.get(key): an empty
\* container that is already there counts as missing
KeyMissing_IfEmpty(d, c, key) ==
    \/ Child(c, key).at \notin DOMAIN d
    \/ /\ d[Child(c, key).at].t \in {"map", "list"}
       /\ Children(d, Child(c, key).at) = {}

\* KeyMissing with the test dropped: the container is created every time
KeyMissing_Always(d, c, key) == TRUE

\* services.py 202: if key not in current_node (current_node a map)
KeyMissing(d, c, key) == Child(c, key).at \notin DOMAIN d

\* services.py 203: [] if type(next_key) is int else {}
NewNamedContainer(next_key) == IF isdigit(next_key) THEN ListNode ELSE MapNode

\* services.py 205: current_node.append({})
NewAppendedContainer(next_key) == MapNode

Visit(d, c, key) ==
    [cur |-> c.at, kind |-> IF c.det THEN "char" ELSE d[c.at].t,
     len |-> IF Kind(d, c) = "bool" THEN 0 ELSE len(d, c),
     key |-> StoredKey(key), idx |-> IF isdigit(key) THEN int(key) ELSE -1]

Res(d, c, err) == [d |-> d, c |-> c, err |-> err]

\* services.py 199-207: one iteration over keys[:-1]
Descend(d, c, key, next_key) ==
    LET k == Kind(d, c) IN
    IF ~isdigit(key) THEN
        \* 202: "in" on a list or a string is evaluated, on a bool it raises;
        \* 203 / 207: a string key on a list or a string raises
        IF k = "map"
        THEN IF KeyMissing(d, c, key)
             THEN Res(Put(d, Child(c, key).at, NewNamedContainer(next_key)),
                      Child(c, key), "none")
             ELSE Res(d, Child(c, key), "none")
        ELSE Res(d, c, "TypeError")
    ELSE
        CASE k = "bool" -> Res(d, c, "TypeError")
          [] k = "map" ->
                IF should_create_new_node(d, c, key)
                THEN Res(d, c, "AttributeError")
                ELSE IF KeyMissing(d, c, key)
                     THEN Res(d, c, "KeyError")
                     ELSE Res(d, Child(c, key), "none")
          [] k = "str" ->
                IF should_create_new_node(d, c, key)
                THEN Res(d, c, "AttributeError")
                ELSE IF int(key) < len(d, c)
                     THEN Res(d, CharOf(c.at), "none")
                     ELSE Res(d, c, "IndexError")
          [] k = "list" ->
                LET d1 == IF should_create_new_node(d, c, key)
                          THEN ListAppend(d, c, NewAppendedContainer(next_key))
                          ELSE d
                IN  IF int(key) < len(d1, c)
                    THEN Res(d1, Child(c, key), "none")
                    ELSE Res(d1, c, "IndexError")

\* services.py 209-213: the last key
Assign(d, c, last_key, value) ==
    LET k == Kind(d, c) IN
    IF isdigit(last_key) /\ k = "bool" THEN Res(d, c, "TypeError")
    ELSE IF should_create_new_node(d, c, last_key) /\ k # "list"
    THEN Res(d, c, "AttributeError")
    ELSE LET d1 == IF should_create_new_node(d, c, last_key)
                   THEN ListAppend(d, c, StrNode(value)) ELSE d
         IN  CASE k = "map" ->
                    Res(Put(d1, Child(c, last_key).at, parse_if_bool(value)),
                        c, "none")
               [] k = "list" ->
                    IF ~isdigit(last_key) THEN Res(d1, c, "TypeError")
                    ELSE IF int(last_key) < len(d1, c)
                    THEN Res(Put(d1, Child(c, last_key).at, parse_if_bool(value)),
                             c, "none")
                    ELSE Res(d1, c, "IndexError")
               [] OTHER -> Res(d1, c, "TypeError")

\* The slots one iteration over keys[:-1] assigns to (services.py 203, 205)
DescendStores(d, c, key) ==
    IF ~isdigit(key)
    THEN IF Kind(d, c) = "map" /\ KeyMissing(d, c, key)
         THEN {Child(c, key).at} ELSE {}
    ELSE IF Kind(d, c) = "list" /\ should_create_new_node(d, c, key)
         THEN {c.at \o <<IntTok(len(d, c))>>} ELSE {}

\* The slots the last key assigns to (services.py 211, 213)
AssignStores(d, c, last_key, r) ==
    (IF isdigit(last_key) /\ Kind(d, c) = "list" /\ should_create_new_node(d, c, last_key)
     THEN {c.at \o <<IntTok(len(d, c))>>} ELSE {})
    \cup (IF r.err = "none" THEN {Child(c, last_key).at} ELSE {})

\* services.py 196-213: the walk from current_node = top_level_dict
RECURSIVE Walk(_, _, _, _, _, _, _)
Walk(d, c, keys, i, value, seen, put) ==
    LET seen1 == Append(seen, Visit(d, c, keys[i])) IN
    IF i = Len(keys)
    THEN LET r == Assign(d, c, keys[i], value)
         IN  [d |-> r.d, err |-> r.err, walked |-> seen1,
              stored |-> put \cup AssignStores(d, c, keys[i], r)]
    ELSE LET r == Descend(d, c, keys[i], keys[i + 1])
             put1 == put \cup DescendStores(d, c, keys[i])
         IN  IF r.err # "none"
             THEN [d |-> r.d, err |-> r.err, walked |-> seen1, stored |-> put1]
             ELSE Walk(r.d, r.c, keys, i + 1, value, seen1, put1)

\* services.py 193-213: the body of the loop for one variable
MergeVariable(d, v) ==
    LET kv == validate_variable_format(v)
        keys == split(kv.key, ".")
    IN  IF kv.err # "none"
        THEN [d |-> d, err |-> kv.err, walked |-> <<>>, stored |-> {}]
        ELSE IF \E i \in 1..Len(keys) : isdigit(keys[i]) /\ IntRaises(keys[i])
        THEN [d |-> d, err |-> "ValueError(int)", walked |-> <<>>, stored |-> {}]
        ELSE Walk(d, At(<<>>), keys, 1, kv.value, <<>>, {})

----------------------------------------------------------------------------
(* Inputs *)

\* The --variable arguments a call can be given
Variables == {
    <<"c", ".", "0", ".", "i", "=", "a">>,               \* "c.0.i=a"
    <<"c", ".", "0", ".", "p", "=", "b">>,               \* "c.0.p=b"
    <<"c", ".", "1", ".", "i", "=", "b">>,               \* "c.1.i=b"
    <<"c", ".", "5", ".", "i", "=", "a">>,               \* "c.5.i=a"
    <<"c", ".", "0", "0", ".", "i", "=", "b">>,          \* "c.00.i=b"
    <<"c", ".", "i", "=", "a">>,                         \* "c.i=a"
    <<"c", ".", "0", "=", "f", "a", "l", "s", "e">>,     \* "c.0=false"
    <<"c", ".", "5", "=", "a">>,                         \* "c.5=a"
    <<"a", ".", "0", ".", "0", "=", "x">>,               \* "a.0.0=x"
    <<"a", ".", "0", "=", "x">>,                         \* "a.0=x"
    <<"a", "=", "y">>,                                   \* "a=y"
    <<"a", ".", "b", "=", "x">>,                         \* "a.b=x"
    <<"a", "=", "b", "=", "c">>,                         \* "a=b=c"
    <<"0", "=", "v">>,                                   \* "0=v"
    <<"f", "=", "T", "R", "U", "E">>,                    \* "f=TRUE"
    <<"f", "=", "y", "e", "s">>,                         \* "f=yes"
    <<" ", "a", " ", "=", " ", "x", " ">>,               \* " a = x "
    <<"c">>,                                             \* "c"
    <<"=", "x">>,                                        \* "=x"
    <<"a", "=">>,                                        \* "a="
    <<" ", "=", "x">>,                                   \* " =x"
    <<"a", "=", " ">>,                                   \* "a= "
    <<"a", ".", "^2", "=", "x">>                         \* "a.\u00b2=x"
}

\* {"a": {"b": "x"}}
DocAB ==
    EmptyDoc @@ (<<<<"a">>>> :> MapNode)
             @@ (<<<<"a">>, <<"b">>>> :> StrNode(<<"x">>))

\* {"c": [{"i": "a"}], "f": true}
DocC ==
    EmptyDoc @@ (<<<<"c">>>> :> ListNode)
             @@ (<<<<"c">>, <<"0">>>> :> MapNode)
             @@ (<<<<"c">>, <<"0">>, <<"i">>>> :> StrNode(<<"a">>))
             @@ (<<<<"f">>>> :> BoolNode(TRUE))

\* {"c": []}
DocEmptyList == EmptyDoc @@ (<<<<"c">>>> :> ListNode)

\* The variables of the service that `services update` starts from
InitialDocs == {EmptyDoc, DocAB, DocC, DocEmptyList}

----------------------------------------------------------------------------
(* The commands *)

Commands == JobCommands \cup ServiceCommands

\* The ID-or-name argument: a name or ID, or the empty string
Identifiers == {"web", ""}

\* What the server puts in its answers
JobIds == {"7", "8"}
Tokens == {"t1", "t2"}
Accounts == {"a1", "a2"}

Init ==
    /\ cmd \in Commands
    /\ identifier \in (IF cmd \in JobCommands THEN Identifiers
                       ELSE IF cmd = "update" THEN {"web"} ELSE {"-"})
    /\ wait \in (IF cmd \in JobCommands THEN BOOLEAN ELSE {FALSE})
    /\ pc = IF cmd = "create" THEN "merge" ELSE "get_by_name"
    /\ outcome = "running"
    /\ log = <<>>
    /\ matches = -1
    /\ jobStatus = "none"
    /\ jobRan = FALSE
    /\ lastFetched = "none"
    /\ frames = 0
    /\ response = NoResponse
    /\ result = [kind |-> "none", message |-> <<>>]
    /\ jobId = "none"
    /\ token = "none"
    /\ account = "none"
    /\ sent = <<>>
    /\ top_level_dict \in (IF cmd = "update" THEN InitialDocs ELSE {EmptyDoc})
    /\ prev_dict = top_level_dict
    /\ variable = <<>>
    /\ error = "none"
    /\ walked = <<>>
    /\ stored = {}
    /\ nvars = 0

\* The command ends: how, and with what added to the log
End(how, events) ==
    /\ pc' = "done"
    /\ outcome' = how
    /\ log' = log \o events

\* A request and how it came back
Req(x, r) == <<Ev("request", x), Ev("response", r)>>

\* client.py 37-45: the exchange x is what came back to this request
Exchanged(x) ==
    /\ response' = x
    /\ result' = request(x)

Exchanges == Responses \cup {NoResponse}

\* A request that fails inside the try block of a command (setups.py
\* 186-188, 235-237, services.py 82-84, 129-131): whatever was raised,
\* typer.Abort included, is displayed and the command aborts.
CaughtFailure(req, r) ==
    End("aborted", Req(req, r) \o HandleResponseLog(r) \o <<Ev("show_error", "caught")>>)

\* UncaughtFailure with every exception caught like a closure of the
\* channel: the command goes on to fetch the job
UncaughtFailure_CaughtAsClosure(req, r) ==
    /\ pc' = "final_fetch"
    /\ outcome' = outcome
    /\ log' = log \o Req(req, r) \o HandleResponseLog(r)

\* A request that fails outside any try block, or inside the try block of
\* setups.py 200-202 / 249-251, which catches ConnectionClosed only.
UncaughtFailure(req, r) ==
    End(RequestFailure(r), Req(req, r) \o HandleResponseLog(r))

\* setups.py 275, services.py 443: if len(setup) == 1
NameResolves(n) == n = 1

AfterResolution == IF cmd = "update" THEN "merge" ELSE "create_job"

\* setups.py 273-276, services.py 441-444: the name-filter query; the
\* len() of the None of a 204 raises inside the try block of the command
GetByName ==
    /\ pc = "get_by_name"
    /\ \E x \in Exchanges, n \in 0..2 :
        LET r == Class(request(x)) IN
        /\ Exchanged(x)
        /\ IF r = "ok"
           THEN /\ pc' = IF NameResolves(n) THEN AfterResolution ELSE "get_by_id"
                /\ log' = log \o Req("GET by name", r)
                /\ outcome' = outcome
                /\ matches' = n
           ELSE CaughtFailure("GET by name", r) /\ matches' = matches
    /\ UNCHANGED <<args, jobVars, wsVars, mergeVars>>

\* setups.py 278-280, services.py 446-448: retrieve(identifier).  The
\* command subscripts what it gets (setups.py 185, services.py 118, 121)
\* inside its try block: that raises on the list of the collection and on
\* the None of a 204.
GetById ==
    /\ pc = "get_by_id"
    /\ \E x \in Exchanges :
        LET r == Class(request(x)) IN
        /\ Exchanged(x)
        /\ IF r = "ok" /\ retrieve(identifier) = "GET by id"
           THEN /\ pc' = AfterResolution
                /\ log' = log \o Req(retrieve(identifier), r)
                /\ outcome' = outcome
           ELSE CaughtFailure(retrieve(identifier), r)
    /\ UNCHANGED <<args, matches, jobVars, wsVars, mergeVars>>

\* setups.py 185-198 / 232-247: create the job, display that it is queued,
\* and return unless --wait was given; with --wait, job["id"] (setups.py
\* 201 / 250) raises on the None of a 204
CreateJob ==
    /\ pc = "create_job"
    /\ \E x \in Exchanges, id \in JobIds :
        LET r == Class(request(x)) IN
        /\ Exchanged(x)
        /\ IF r = "ok"
           THEN /\ jobStatus' = "Initialized"
                /\ jobId' = id
                /\ pc' = AfterJobCreated(wait)
                /\ outcome' = IF AfterJobCreated(wait) = "done" THEN "returned" ELSE outcome
                /\ log' = log \o Req("POST jobs", r) \o QueuedLog(cmd, wait)
           ELSE IF r = "empty"
           THEN /\ jobStatus' = "Initialized"
                /\ jobId' = jobId
                /\ End(IF AfterJobCreated(wait) = "done" THEN "returned" ELSE "raised",
                       Req("POST jobs", r) \o QueuedLog(cmd, wait))
           ELSE /\ CaughtFailure("POST jobs", r)
                /\ UNCHANGED <<jobStatus, jobId>>
    /\ UNCHANGED <<args, matches, jobRan, lastFetched, frames, token, account, sent, mergeVars>>

\* client.py 322: websockets.connect; a failed connection raises
Connect ==
    /\ pc = "connect"
    /\ \E ok \in BOOLEAN :
        IF ok
        THEN /\ pc' = AfterConnect
             /\ log' = Append(log, Ev("ws", "connect"))
             /\ outcome' = outcome
        ELSE End("raised", <<Ev("ws", "connect failed")>>)
    /\ UNCHANGED <<args, matches, jobVars, httpVars, wsVars, mergeVars>>

\* client.py 291-295, 303-305: the token for the subscription frame
Authenticate ==
    /\ pc = "authenticate"
    /\ \E x \in Exchanges, tok \in Tokens :
        LET r == Class(request(x)) IN
        /\ Exchanged(x)
        /\ IF r = "ok"
           THEN /\ pc' = "get_job"
                /\ token' = tok
                /\ log' = log \o Req("POST identity/token", r)
                /\ outcome' = outcome
           ELSE UncaughtFailure("POST identity/token", r) /\ token' = token
    /\ UNCHANGED <<args, matches, jobVars, jobId, account, sent, mergeVars>>

\* client.py 297-301, 307-311: the job, for the account of the frame
GetJob ==
    /\ pc = "get_job"
    /\ \E x \in Exchanges, acc \in Accounts :
        LET r == Class(request(x)) IN
        /\ Exchanged(x)
        /\ IF r = "ok"
           THEN /\ pc' = "send"
                /\ account' = acc
                /\ log' = log \o Req("GET job", r)
                /\ outcome' = outcome
                /\ lastFetched' = jobStatus
           ELSE UncaughtFailure("GET job", r) /\ UNCHANGED <<lastFetched, account>>
    /\ UNCHANGED <<args, matches, jobStatus, jobRan, frames, jobId, token, sent, mergeVars>>

\* client.py 314-315: send the subscription frame; a channel that is
\* already closed raises ConnectionClosed
Send ==
    /\ pc = "send"
    /\ \/ /\ pc' = "listen"
          /\ log' = Append(log, Ev("ws", "send"))
          /\ sent' = Append(sent, FrameText(jobId, token, account))
       \/ \E kind \in {"ok", "error"} :
          /\ pc' = OnConnectionClosed(kind)
          /\ log' = Append(log, Ev("ws", "closed"))
          /\ sent' = sent
    /\ UNCHANGED <<args, matches, outcome, jobVars, httpVars, jobId, token, account, mergeVars>>

\* client.py 317-319: one frame arrives; an empty one ends the loop, run()
\* returns and the command returns after its try block (setups.py 200-201)
Recv ==
    /\ pc = "listen"
    /\ \E message \in {"line", ""} :
        IF ListenContinues(message)
        THEN /\ frames < MaxFrames
             /\ frames' = frames + 1
             /\ log' = log \o <<Ev("ws", "recv"), Ev("print", "log")>>
             /\ UNCHANGED <<pc, outcome>>
        ELSE /\ End("returned", <<Ev("ws", "recv")>>)
             /\ frames' = frames
    /\ UNCHANGED <<args, matches, jobStatus, jobRan, lastFetched, httpVars, wsVars, mergeVars>>

\* client.py 318, setups.py 202 / 251: recv raises ConnectionClosed
Closed ==
    /\ pc = "listen"
    /\ \E kind \in {"ok", "error"} :
        /\ pc' = OnConnectionClosed(kind)
        /\ log' = Append(log, Ev("ws", "closed"))
    /\ UNCHANGED <<args, matches, outcome, jobVars, httpVars, wsVars, mergeVars>>

\* setups.py 203-214 / 252-265: fetch the job and report on its status
FinalFetch ==
    /\ pc = "final_fetch"
    /\ \E x \in Exchanges :
        LET r == Class(request(x)) IN
        /\ Exchanged(x)
        /\ IF r = "ok"
           THEN /\ lastFetched' = jobStatus
                /\ End("returned", Req("GET job", r) \o <<JobReport(cmd, jobStatus)>>)
           ELSE UncaughtFailure("GET job", r) /\ lastFetched' = lastFetched
    /\ UNCHANGED <<args, matches, jobStatus, jobRan, frames, wsVars, mergeVars>>

\* The server works on the job
ServerStep ==
    /\ jobStatus # "none"
    /\ pc # "done"
    /\ \E s \in ServerNext(cmd, jobStatus) :
        /\ jobStatus' = s
        /\ jobRan' = (jobRan \/ s \in {"Deploying", "Destroying"})
    /\ UNCHANGED <<args, matches, pc, outcome, log, lastFetched, frames, httpVars, wsVars, mergeVars>>

\* services.py 192-213: dict_from_variables processes one variable; what it
\* raises is caught by the command (services.py 82-84, 129-131)
MergeStep ==
    /\ pc = "merge"
    /\ nvars < MaxVars
    /\ \E v \in Variables : \E r \in {MergeVariable(top_level_dict, v)} :
        /\ prev_dict' = top_level_dict
        /\ top_level_dict' = r.d
        /\ variable' = v
        /\ error' = r.err
        /\ walked' = r.walked
        /\ stored' = r.stored
        /\ nvars' = nvars + 1
        /\ IF r.err = "none"
           THEN UNCHANGED <<pc, outcome, log>>
           ELSE End("aborted", <<Ev("show_error", r.err)>>)
    /\ UNCHANGED <<args, matches, jobVars, httpVars, wsVars>>

\* services.py 71-72, 117-118, 215: the variables are done (or none given)
MergeReturn ==
    /\ pc = "merge"
    /\ pc' = "send_service"
    /\ UNCHANGED <<args, matches, outcome, log, jobVars, httpVars, wsVars, mergeVars>>

\* services.py 74-81, 120-128: send the service and report; the result of
\* the request is not used
SendService ==
    /\ pc = "send_service"
    /\ \E x \in Exchanges :
        LET r == Class(request(x)) IN
        /\ Exchanged(x)
        /\ IF r \in {"ok", "empty"}
           THEN End("returned", Req("send service", r) \o <<Ev("show_success", "service")>>)
           ELSE CaughtFailure("send service", r)
    /\ UNCHANGED <<args, matches, jobVars, wsVars, mergeVars>>

Next ==
    \/ GetByName
    \/ GetById
    \/ CreateJob
    \/ Connect
    \/ Authenticate
    \/ GetJob
    \/ Send
    \/ Recv
    \/ Closed
    \/ FinalFetch
    \/ ServerStep
    \/ MergeStep
    \/ MergeReturn
    \/ SendService

Spec == Init /\ [][Next]_vars

----------------------------------------------------------------------------
(* services.py 174-215: one process that calls dict_from_variables several *)
(* times without a document, as create does (services.py 72).              *)

\* The variables given to these calls
CallVariables == {
    <<"a", "=", "y">>,
    <<"a", ".", "b", "=", "x">>,
    <<"c", ".", "0", ".", "i", "=", "a">>,
    <<"c", ".", "5", ".", "i", "=", "a">>,
    <<"c">>
}

\* The calls begun so far
Calls == Cardinality(Positions(log, "call"))

\* services.py 175: the default of top_level_dict is the one dict made when
\* the def statement ran; before the first call it is empty
InitCalls ==
    /\ cmd = "-"
    /\ identifier = "-"
    /\ wait = FALSE
    /\ pc = "called"
    /\ outcome = "running"
    /\ log = <<>>
    /\ matches = -1
    /\ jobStatus = "none"
    /\ jobRan = FALSE
    /\ lastFetched = "none"
    /\ frames = 0
    /\ response = NoResponse
    /\ result = [kind |-> "none", message |-> <<>>]
    /\ jobId = "none"
    /\ token = "none"
    /\ account = "none"
    /\ sent = <<>>
    /\ top_level_dict = EmptyDoc
    /\ prev_dict = EmptyDoc
    /\ variable = <<>>
    /\ error = "none"
    /\ walked = <<>>
    /\ stored = {}
    /\ nvars = 0

\* services.py 174-176: a call without a document binds top_level_dict to
\* the default object, with whatever earlier calls put into it
BeginCall ==
    /\ pc = "called"
    /\ Calls < MaxCalls
    /\ pc' = "merge"
    /\ log' = Append(log, Ev("call", "default"))
    /\ nvars' = 0
    /\ error' = "none"
    /\ variable' = <<>>
    /\ walked' = <<>>
    /\ stored' = {}
    /\ prev_dict' = top_level_dict
    /\ UNCHANGED <<args, matches, outcome, jobVars, httpVars, wsVars, top_level_dict>>

\* services.py 192-213: the call processes one variable; what it raises
\* ends the call
CallStep ==
    /\ pc = "merge"
    /\ nvars < MaxVars
    /\ \E v \in CallVariables : \E r \in {MergeVariable(top_level_dict, v)} :
        /\ prev_dict' = top_level_dict
        /\ top_level_dict' = r.d
        /\ variable' = v
        /\ error' = r.err
        /\ walked' = r.walked
        /\ stored' = r.stored
        /\ nvars' = nvars + 1
        /\ pc' = IF r.err = "none" THEN pc ELSE "called"
    /\ UNCHANGED <<args, matches, outcome, log, jobVars, httpVars, wsVars>>

\* services.py 215: return top_level_dict
CallReturn ==
    /\ pc = "merge"
    /\ pc' = "called"
    /\ UNCHANGED <<args, matches, outcome, log, jobVars, httpVars, wsVars, mergeVars>>

NextCalls ==
    \/ BeginCall
    \/ CallStep
    \/ CallReturn

SpecCalls == InitCalls /\ [][NextCalls]_vars

----------------------------------------------------------------------------
(* Reading the log *)

PosOf(ev) == {i \in 1..Len(log) : log[i] = ev}

JobFetchPos == PosOf(Ev("request", "GET job"))

ClosePos == PosOf(Ev("ws", "closed"))

\* The reports of the outcome of a job
IsReport(ev) ==
    \/ ev.e = "print_status"
    \/ ev \in {Ev("show_success", "deployed"), Ev("show_success", "destroyed"),
               Ev("show_error", "could not be deployed"),
               Ev("show_error", "could not be destroyed")}

ReportPos == {i \in 1..Len(log) : IsReport(log[i])}

FetchesAfterClose == {i \in JobFetchPos : \E j \in ClosePos : j < i}

\* The fetch after the closure of the channel returned the job
FinalFetchOk == \E i \in FetchesAfterClose : log[i + 1] = Ev("response", "ok")

LastResponse == IF Has(log, "response") THEN log[Last(log, "response")].a ELSE "none"

LastEvent == IF Len(log) > 0 THEN log[Len(log)] ELSE Ev("none", "none")

Waiting == cmd \in JobCommands /\ wait

\* The statuses the match of the command recognises as terminal
RecognisedTerminal(c) ==
    IF c = "deploy" THEN {"Deployed", "Failed"} ELSE {"Initialized", "Failed"}

----------------------------------------------------------------------------
(* C1 *)

----------------------------------------------------------------------------
(* C2 *)

\* C2: in wait mode the closure of the log channel, normal or abnormal, is
\* not an error: the command goes on to fetch the job exactly once, no
\* report is displayed before the channel closed, and the report is the one
\* that belongs to the fetched status (deploy: Deployed -> success, Failed
\* -> error message; destroy: Initialized -> success, Failed -> error
\* message).
C2_ClosureThenOneFetchDecides ==
    Waiting =>
        /\ \A i \in ReportPos : \E j \in ClosePos : j < i
        /\ (ClosePos # {} /\ pc # "done") =>
              (pc = "final_fetch" /\ outcome = "running" /\ FetchesAfterClose = {})
        /\ (ClosePos # {} /\ pc = "done") => Cardinality(FetchesAfterClose) = 1
        /\ FinalFetchOk =>
              /\ Cardinality(ReportPos) = 1
              /\ ReportPos = {Len(log)}
              /\ (cmd = "deploy" /\ lastFetched = "Deployed")
                    => LastEvent = Ev("show_success", "deployed")
              /\ (cmd = "deploy" /\ lastFetched = "Failed")
                    => LastEvent = Ev("show_error", "could not be deployed")
              /\ (cmd = "destroy" /\ lastFetched = "Initialized")
                    => LastEvent = Ev("show_success", "destroyed")
              /\ (cmd = "destroy" /\ lastFetched = "Failed")
                    => LastEvent = Ev("show_error", "could not be destroyed")

C2_Witness ==
    /\ cmd = "destroy" /\ wait /\ pc = "done"
    /\ ClosePos # {} /\ FinalFetchOk
    /\ frames > 0
    /\ lastFetched = "Initialized"
    /\ LastEvent = Ev("show_success", "destroyed")

----------------------------------------------------------------------------
(* C3 *)

\* C3: when the status a waiting deploy or destroy inspects (the one fetched
\* after the channel closed) is Failed, the command ends by returning
\* normally with the failure displayed as an error message; a request that
\* fails (401, API error, transport) never ends the command by a normal
\* return.
C3_FailedJobIsReportedNotRaised ==
    Waiting =>
        /\ (FinalFetchOk /\ lastFetched = "Failed") =>
              /\ pc = "done"
              /\ outcome = "returned"
              /\ LastEvent = Ev("show_error", IF cmd = "deploy"
                                              THEN "could not be deployed"
                                              ELSE "could not be destroyed")
        /\ (pc = "done" /\ LastResponse \in {"401", "error", "transport"}) =>
              outcome \in {"aborted", "raised"}

C3_Witness ==
    /\ Waiting /\ pc = "done" /\ FinalFetchOk
    /\ lastFetched = "Failed" /\ outcome = "returned"

----------------------------------------------------------------------------
(* C4 *)

\* C4: without --wait, deploy and destroy never fetch the job, never request
\* a streaming token and never open the channel; once the job is created
\* the command has displayed that the setup is queued and has returned.
C4_FireAndForget ==
    (cmd \in JobCommands /\ ~wait) =>
        /\ JobFetchPos = {}
        /\ PosOf(Ev("request", "POST identity/token")) = {}
        /\ ~Has(log, "ws")
        /\ jobStatus # "none" =>
              /\ pc = "done"
              /\ outcome = "returned"
              /\ LastEvent = Ev("show_success", "queued")
              /\ log[Len(log) - 1] \in {Ev("response", "ok"), Ev("response", "empty"),
                                         Ev("show_success", "queued")}

C4_Witness ==
    /\ cmd \in JobCommands /\ ~wait
    /\ jobStatus = "Initialized" /\ pc = "done" /\ outcome = "returned"

----------------------------------------------------------------------------
(* C5 *)

----------------------------------------------------------------------------
(* Reading the last processed variable *)

\* dict_from_variables has processed a variable; it raised nothing
Stepped == nvars > 0
Succeeded == Stepped /\ error = "none"

RawKey == SubSeq(variable, 1, FindChar(variable, "=") - 1)
RawValue == SubSeq(variable, FindChar(variable, "=") + 1, Len(variable))

\* The segments of the path of the last variable, and the path they name
Keys == split(strip(RawKey), ".")
MergedPath == [i \in 1..Len(Keys) |-> StoredKey(Keys[i])]
MergedValue == strip(RawValue)

ListLen(d, p) == Cardinality(Children(d, p))

\* {"c": [{"i": "a"}]}, {"c": [{"i": "a", "p": "b"}]}
DocOneField ==
    EmptyDoc @@ (<<<<"c">>>> :> ListNode)
             @@ (<<<<"c">>, <<"0">>>> :> MapNode)
             @@ (<<<<"c">>, <<"0">>, <<"i">>>> :> StrNode(<<"a">>))

DocBothFields == DocOneField @@ (<<<<"c">>, <<"0">>, <<"p">>>> :> StrNode(<<"b">>))

VarSecondField == <<"c", ".", "0", ".", "p", "=", "b">>
VarSecondElement == <<"c", ".", "1", ".", "i", "=", "b">>

----------------------------------------------------------------------------
(* C6 *)

\* C6: a successful merge changes only the location its path names, that is
\* the node at the path with what was under it, and the containers created
\* along the path: every leaf that was at a path outside that location is
\* still there with its value, every node that is new or changed lies on the
\* path, and c.0.i=a followed by c.0.p=b on an empty document gives one list
\* with one element that holds both fields.
C6_MergeKeepsEverythingOffThePath ==
    Succeeded =>
        /\ \A path \in {MergedPath} :
           /\ \A q \in DOMAIN prev_dict :
                 (IsLeaf(prev_dict[q]) /\ ~IsPrefix(path, q)) =>
                     (q \in DOMAIN top_level_dict /\ top_level_dict[q] = prev_dict[q])
           /\ \A q \in DOMAIN top_level_dict :
                 (q \notin DOMAIN prev_dict \/ top_level_dict[q] # prev_dict[q]) =>
                     /\ IsPrefix(q, path)
                     /\ q # path => ~IsLeaf(top_level_dict[q])
        /\ (prev_dict = DocOneField /\ variable = VarSecondField) =>
              top_level_dict = DocBothFields

C6_Witness ==
    /\ Succeeded /\ nvars = 2
    /\ prev_dict = DocOneField /\ variable = VarSecondField
    /\ top_level_dict = DocBothFields

----------------------------------------------------------------------------
(* C7 *)

\* C7: a list grows at its append point only, and by one: where the walk
\* meets a list with an index equal to its length, the list ends one longer,
\* the new element being a container for an intermediate segment and the
\* normalized value for the final one; where the index is within bounds the
\* length of the list is unchanged.
C7_ListGrowsByOneAtAppendPoint ==
    Stepped =>
        \A i \in 1..Len(walked) :
            LET w == walked[i] IN
            (w.kind = "list" /\ w.idx >= 0) =>
                /\ w.idx = w.len =>
                      /\ ListLen(top_level_dict, w.cur) = w.len + 1
                      /\ LET new == top_level_dict[w.cur \o <<IntTok(w.len)>>] IN
                         IF i < Len(Keys)
                         THEN new.t \in {"map", "list"}
                         ELSE new = parse_if_bool(MergedValue)
                /\ w.idx < w.len =>
                      ListLen(top_level_dict, w.cur) = w.len

C7_Witness ==
    /\ Succeeded
    /\ prev_dict = DocOneField /\ variable = VarSecondElement
    /\ ListLen(top_level_dict, <<<<"c">>>>) = 2
    /\ \E i \in 1..Len(walked) : walked[i].kind = "list" /\ walked[i].idx = walked[i].len

----------------------------------------------------------------------------
(* C8 *)

\* C8: a variable whose path meets a list with an index greater than the
\* length of the list is rejected with an error and the list is not
\* extended: no element is added to it.
C8_IndexBeyondAppendPointAddsNothing ==
    Stepped =>
        \A i \in 1..Len(walked) :
            LET w == walked[i] IN
            (w.kind = "list" /\ w.idx > w.len) =>
                /\ error # "none"
                /\ ListLen(top_level_dict, w.cur) = w.len

----------------------------------------------------------------------------
(* C9 *)

\* C9: every container created for an intermediate segment of the path is a
\* list when the next segment is an index and a map otherwise, under a name
\* of a map and at the append point of a list alike.
C9_CreatedContainerKindFollowsNextSegment ==
    Stepped =>
        \A i \in 1..(Len(Keys) - 1) :
            LET q == SubSeq(MergedPath, 1, i) IN
            (i <= Len(walked) /\ q \in DOMAIN top_level_dict /\ q \notin DOMAIN prev_dict) =>
                top_level_dict[q].t = IF isdigit(Keys[i + 1]) THEN "list" ELSE "map"

----------------------------------------------------------------------------
(* C10 *)

\* C10: a variable without "=", or whose key or value (split at the first
\* "=") is empty once whitespace is trimmed, is rejected with the
\* invalid-format error and leaves the document as it was.
C10_BlankKeyOrValueIsRejected ==
    Stepped =>
        ((FindChar(variable, "=") = 0 \/ strip(RawKey) = <<>> \/ strip(RawValue) = <<>>)
            => (error = "ValueError" /\ top_level_dict = prev_dict))

----------------------------------------------------------------------------
(* C11 *)

\* The variable contains "=" and its key and value, split at the first "=",
\* are both non-empty once whitespace is trimmed
FormatValid(v) ==
    /\ FindChar(v, "=") > 0
    /\ strip(SubSeq(v, 1, FindChar(v, "=") - 1)) # <<>>
    /\ strip(SubSeq(v, FindChar(v, "=") + 1, Len(v))) # <<>>

\* Every segment of the path of the last variable is a name
NamesOnly == \A i \in 1..Len(Keys) : ~isdigit(Keys[i])

----------------------------------------------------------------------------
(* C12 *)

\* The parent of the merged leaf, and whether the leaf existed before
MergedParent == SubSeq(MergedPath, 1, Len(MergedPath) - 1)
LeafOverwrittenInList ==
    /\ top_level_dict[MergedParent].t = "list"
    /\ MergedPath \in DOMAIN prev_dict
LeafAppendedToList ==
    /\ top_level_dict[MergedParent].t = "list"
    /\ MergedPath \notin DOMAIN prev_dict
LeafSetUnderMapKey == top_level_dict[MergedParent].t = "map"

\* C12: the leaf a successful merge stores is the boolean true or false
\* exactly when the trimmed value is "true" or "false" in any letter case,
\* and is the trimmed value as a string otherwise, whether the leaf is set
\* under a map key, overwritten in a list or appended to a list.
C12_LeafIsBooleanIffValueSpellsOne ==
    Succeeded =>
        \A path \in {MergedPath}, value \in {MergedValue} :
            /\ path \in DOMAIN top_level_dict
            /\ top_level_dict[path] =
                  IF lower(value) = StrTrue THEN BoolNode(TRUE)
                  ELSE IF lower(value) = StrFalse THEN BoolNode(FALSE)
                  ELSE StrNode(value)
            /\ top_level_dict[SubSeq(path, 1, Len(path) - 1)].t \in {"list", "map"}

C12_Witness ==
    /\ Succeeded
    /\ MergedValue # lower(MergedValue)
    /\ top_level_dict[MergedPath].t = "bool"

C12_WitnessOverwrittenInList ==
    Succeeded /\ LeafOverwrittenInList /\ top_level_dict[MergedPath].t = "bool"

C12_WitnessAppendedToList ==
    Succeeded /\ LeafAppendedToList /\ top_level_dict[MergedPath].t = "bool"

C12_WitnessStaysString ==
    Succeeded /\ MergedValue = <<"y", "e", "s">> /\ top_level_dict[MergedPath].t = "str"

----------------------------------------------------------------------------
(* C13 *)

\* The maps and lists of a document
IsContainer(n) == n.t \in {"map", "list"}
SubDocuments(d) == {q \in DOMAIN d : IsContainer(d[q])}

\* The sub-documents the last variable walked through: the existing maps
\* and lists at the proper prefixes of its path
ThroughTo(path) ==
    {q \in SubDocuments(prev_dict) : IsPrefix(q, path) /\ q # path}
WalkedThrough == ThroughTo(MergedPath)

\* C13: dict_from_variables never assigns to the document root, so the
\* document it returns is the object it was given; no slot that held a map
\* or list is assigned an object except the slot the whole path names, so
\* every existing sub-document the path runs through is the same object
\* afterwards, still in place in the document, and the merged leaf is found
\* through it.
C13_ExistingSubDocumentsAreNotReplaced ==
    Stepped =>
        /\ <<>> \notin stored
        /\ stored # {} =>
              \A path \in {MergedPath} :
                  \A q \in stored : q \in SubDocuments(prev_dict) => q = path
        /\ Succeeded =>
              \A path \in {MergedPath} :
                  /\ path \in DOMAIN top_level_dict
                  /\ \A q \in ThroughTo(path) :
                        /\ q \notin stored
                        /\ q \in SubDocuments(top_level_dict)
                        /\ top_level_dict[q].t = prev_dict[q].t

C13_Witness ==
    /\ Succeeded
    /\ \E q \in WalkedThrough : q # <<>> /\ Children(prev_dict, q) = {}
    /\ MergedPath \in stored

----------------------------------------------------------------------------
(* C14 *)

\* The requests of the resolution of the identifier
ResolutionRequests ==
    PosOf(Ev("request", "GET by name")) \cup PosOf(Ev("request", "GET by id"))
        \cup PosOf(Ev("request", "GET collection"))

\* The resolution is over: the name query was answered and the command is
\* past the lookup that follows it
Resolved == matches # -1 /\ pc # "get_by_id"

\* C14: the name-filter query is the first request; when it returned exactly
\* one match no ID lookup follows; when it returned none or several, exactly
\* one lookup of the identifier as an ID follows; a resolution sends at most
\* two requests.
C14_NameFirstThenOneLookupById ==
    cmd # "create" =>
        /\ Has(log, "request") => log[1] = Ev("request", "GET by name")
        /\ Cardinality(ResolutionRequests) <= 2
        /\ PosOf(Ev("request", "GET collection")) = {}
        /\ (Resolved /\ NameResolves(matches)) =>
              PosOf(Ev("request", "GET by id")) = {}
        /\ (Resolved /\ ~NameResolves(matches)) =>
              Cardinality(PosOf(Ev("request", "GET by id"))) = 1

\* The same for an identifier that is not the empty string
C14_HoldsForNonEmptyIdentifier ==
    identifier # "" => C14_NameFirstThenOneLookupById

----------------------------------------------------------------------------
(* C15 *)

\* A response came back to the last request
Responded == response # NoResponse

Is2xx(status) == status >= 200 /\ status < 300

\* C15: a 401 response is classified as an authentication error, a 204 as
\* the empty success, every other response outside 2xx as an API error with
\* the message extracted from its body ("not found" for a 404 whose JSON
\* body has that detail), a 2xx response with a JSON body as that body; and
\* only 2xx responses are classified as success.
C15_ClassifiedByStatus ==
    Responded =>
        /\ response.status = 401 => result.kind = "AuthenticationError"
        /\ response.status = 204 => result.kind = "None"
        /\ (~Is2xx(response.status) /\ response.status # 401) =>
              /\ result.kind = "APIError"
              /\ result.message = extract_error_message(response)
        /\ (response.status = 404 /\ response.fields = <<<<"detail", MsgNotFound>>>>) =>
              result.message = MsgNotFound
        /\ (Is2xx(response.status) /\ response.status # 204 /\ response.parses) =>
              result.kind = "json"
        /\ result.kind \in {"json", "None"} => Is2xx(response.status)

\* The same for the statuses for which raise_for_status() and the claim agree
C15_HoldsOutside1xxAnd3xx ==
    (response.status = 0 \/ response.status >= 400 \/ Is2xx(response.status))
        => C15_ClassifiedByStatus

----------------------------------------------------------------------------
(* C16 *)

\* C16: when a variable of `services create` or `services update` is
\* malformed (no "=", or a key or value that is empty once trimmed), the
\* command aborts on it and no request has been sent to the server.
C16_MalformedVariableSendsNothing ==
    (cmd \in ServiceCommands /\ Stepped /\ ~FormatValid(variable)) =>
        /\ pc = "done" /\ outcome = "aborted"
        /\ ~Has(log, "request")

\* The same for `services create` and the variables validate_variable_format
\* rejects
C16_HoldsForCreateWhenRejected ==
    (cmd = "create" /\ Stepped /\ error = "ValueError") =>
        /\ pc = "done" /\ outcome = "aborted"
        /\ ~Has(log, "request")

----------------------------------------------------------------------------
(* C17 *)

\* The classes of a request that failed
Failures == {"401", "error", "transport"}

FailedAt(i) == log[i].e = "response" /\ log[i].a \in Failures

\* C17: once a request has failed (no response, a 401, or a response
\* _handle_response turned into an API error) the command has ended and has
\* sent no request after it: nothing is retried.
C17_NoRequestAfterAFailedOne ==
    \A i \in 1..Len(log) :
        FailedAt(i) =>
            /\ pc = "done"
            /\ outcome \in {"aborted", "raised"}
            /\ \A j \in (i + 1)..Len(log) : log[j].e # "request"

C17_Witness ==
    /\ \E i \in 1..Len(log) : FailedAt(i) /\ log[i - 1] = Ev("request", "GET job")
    /\ Cardinality(Positions(log, "request")) >= 4

----------------------------------------------------------------------------
(* C18 *)

\* Something went wrong in the command: a request failed, the channel
\* could not be opened, or a variable was rejected
Erred ==
    \/ \E i \in 1..Len(log) : FailedAt(i)
    \/ PosOf(Ev("ws", "connect failed")) # {}
    \/ error # "none"

\* C18: a command in which an error occurred ends with an abort after it
\* displayed an error message; no command ends with an exception that was
\* not caught, the wait phase of deploy and destroy included.
C18_EveryErrorIsCaughtAndDisplayed ==
    pc = "done" =>
        /\ outcome # "raised"
        /\ Erred => (outcome = "aborted" /\ Has(log, "show_error"))

\* The same before the wait phase: up to the creation of the job, and in
\* the service commands
C18_HoldsOutsideTheWaitPhase ==
    (pc = "done" /\ ~(wait /\ jobStatus # "none")) => C18_EveryErrorIsCaughtAndDisplayed

----------------------------------------------------------------------------
(* C19 *)

SendPos == PosOf(Ev("ws", "send"))
RecvPos == PosOf(Ev("ws", "recv"))

\* The positions in the log of the answered request x
AnsweredPos(x) ==
    {i \in PosOf(Ev("request", x)) : i < Len(log) /\ log[i + 1] = Ev("response", "ok")}

\* C19: the client sends at most one frame, and exactly one before it
\* receives anything; the frame is id=<job id>|jwt=<token>|account=<account>
\* with the ID of the created job, the token the token exchange returned and
\* the account of the fetched job; it is sent after the connection is open
\* and after both requests were answered.
C19_OneSubscriptionFrame ==
    /\ Len(sent) = Cardinality(SendPos)
    /\ Len(sent) <= 1
    /\ (pc = "listen" \/ RecvPos # {}) => Len(sent) = 1
    /\ \A i \in RecvPos : \E j \in SendPos : j < i
    /\ \A j \in SendPos :
          /\ \E i \in PosOf(Ev("ws", "connect")) : i < j
          /\ \E i \in AnsweredPos("POST identity/token") : i < j
          /\ \E i \in AnsweredPos("GET job") : i < j
    /\ \A k \in 1..Len(sent) :
          /\ sent[k] = <<"id=", jobId, "|jwt=", token, "|account=", account>>
          /\ jobId \in JobIds /\ token \in Tokens /\ account \in Accounts

C19_Witness ==
    /\ Len(sent) = 1
    /\ sent[1] = <<"id=", "8", "|jwt=", "t2", "|account=", "a1">>
    /\ frames = MaxFrames
    /\ ClosePos # {}

----------------------------------------------------------------------------
(* C20 *)

\* C20: every frame received after the subscription frame is displayed, in
\* the order of arrival, and a command that sent the subscription frame
\* stops receiving only when the channel is closed: if it has ended normally,
\* the channel was closed before.
C20_ReceivesUntilTheChannelCloses ==
    /\ \A i \in RecvPos : i < Len(log) /\ log[i + 1] = Ev("print", "log")
    /\ (pc = "done" /\ SendPos # {} /\ outcome = "returned") => ClosePos # {}

\* The same as long as no empty frame arrived: every received frame is
\* followed by its display
C20_HoldsWithoutEmptyFrame ==
    (\A i \in RecvPos : i < Len(log) /\ log[i + 1] = Ev("print", "log"))
        => C20_ReceivesUntilTheChannelCloses

----------------------------------------------------------------------------
(* C21 *)

\* The path p without its last key, and that key
Parent(p) == SubSeq(p, 1, Len(p) - 1)
LastKey(p) == p[Len(p)]

\* Maps have string keys only, lists hold the indices 0..n-1, only maps and
\* lists have children, and leaves are strings or booleans
WellFormed(d) ==
    /\ d[<<>>].t = "map"
    /\ \A p \in DOMAIN d : d[p].t \in {"map", "list", "str", "bool"}
    /\ \A p \in DOMAIN d \ {<<>>} :
          /\ Parent(p) \in DOMAIN d
          /\ d[Parent(p)].t \in {"map", "list"}
          /\ d[Parent(p)].t = "map" => ~isdigit(LastKey(p))
          /\ d[Parent(p)].t = "list" =>
                (isdigit(LastKey(p)) /\ int(LastKey(p)) < ListLen(d, Parent(p)))

\* C21: as long as every merge succeeded the document is well-formed, and
\* the last merge applied its name segments to maps and its index segments
\* to lists.
C21_MergeKeepsDocumentWellFormed ==
    error = "none" =>
        /\ WellFormed(top_level_dict)
        /\ \A i \in 1..Len(walked) :
              walked[i].kind = IF walked[i].idx = -1 THEN "map" ELSE "list"

\* The same for one merge of a variable whose last segment is a name
C21_HoldsWhenLastSegmentIsAName ==
    (Succeeded /\ WellFormed(prev_dict) /\ ~isdigit(Keys[Len(Keys)]))
        => C21_MergeKeepsDocumentWellFormed

----------------------------------------------------------------------------
(* C22 *)

\* C22: when the merge of a variable raises, the document is what it was
\* before that variable was processed.
C22_FailedMergeLeavesDocumentUnchanged ==
    (Stepped /\ error # "none") => top_level_dict = prev_dict

\* The same for the errors raised before the walk starts
C22_HoldsForErrorsBeforeTheWalk ==
    (Stepped /\ error \in {"ValueError", "ValueError(int)"})
        => C22_FailedMergeLeavesDocumentUnchanged

----------------------------------------------------------------------------
(* C23 *)

\* A call without a document has begun and has processed nothing yet
CallBegun == pc = "merge" /\ nvars = 0

\* C23: every call of dict_from_variables without a document starts from
\* the empty document, and a call that merged one variable returns what
\* that variable alone defines.
C23_CallsWithoutDocumentAreIndependent ==
    /\ CallBegun => top_level_dict = EmptyDoc
    /\ (pc = "merge" /\ nvars = 1 /\ error = "none") =>
          top_level_dict = MergeVariable(EmptyDoc, variable).d

\* The same for the first call of the process
C23_HoldsForTheFirstCall ==
    Calls <= 1 => C23_CallsWithoutDocumentAreIndependent

----------------------------------------------------------------------------
(* C24 *)

ReportedDestroyed == PosOf(Ev("show_success", "destroyed")) # {}

\* C24: destroy reports that the setup has been destroyed only when the job
\* has passed through Destroying and is back at Initialized.
C24_DestroyedOnlyAfterTheJobRan ==
    (cmd = "destroy" /\ ReportedDestroyed) =>
        (jobRan /\ lastFetched = "Initialized")

\* What the code does ensure: the report follows a final fetch that
\* returned Initialized
C24_DestroyedOnlyWhenFetchedInitialized ==
    (cmd = "destroy" /\ ReportedDestroyed) =>
        (wait /\ FinalFetchOk /\ lastFetched = "Initialized")

----------------------------------------------------------------------------
(* C25 *)

\* C25: a deploy or destroy with --wait that returned normally has fetched
\* the job after the log stream ended and has displayed exactly one report
\* of the outcome, as the last thing it did.
C25_WaitingRunReturnsWithOneReport ==
    (Waiting /\ pc = "done" /\ outcome = "returned") =>
        /\ \E i \in JobFetchPos :
              /\ log[i + 1] = Ev("response", "ok")
              /\ \A j \in RecvPos \cup SendPos : j < i
        /\ Cardinality(ReportPos) = 1
        /\ IsReport(LastEvent)

\* The same for the runs in which the stream ended with the closure of the
\* channel
C25_HoldsWhenTheChannelWasClosed ==
    ClosePos # {} => C25_WaitingRunReturnsWithOneReport

====
